---- MODULE Spec2Model ----
(***************************************************************************)
(* The dense, table-based DFA of src/dfa.rs: the container, its            *)
(* construction API (add_empty_state, set_transition, set_start_state,     *)
(* set_max_match_state, swap_states, truncate_states,                      *)
(* shuffle_match_states), its transformations (premultiply, to_sized) and  *)
(* the search kernel find.                                                 *)
(*                                                                         *)
(* A DFA<S> is a record                                                    *)
(*   [sid, kind, start, state_count, max_match, alphabet_len,              *)
(*    byte_classes, trans]                                                 *)
(* where sid names the state identifier representation S.  Rust's          *)
(* zero-based vectors are 1-based sequences here: v[i] in the source is    *)
(* v[i + 1] in the model.                                                  *)
(***************************************************************************)
EXTENDS Naturals, Sequences, FiniteSets, TLC

VARIABLES dfa, last

vars == <<dfa, last>>

(***************************************************************************)
(* Bounds of the model.                                                    *)
(***************************************************************************)
\* AddEmptyState is explored up to this many states in Spec and SpecClasses.
MaxStates == 3

\* AddEmptyState is explored up to this many states in SpecFull and SpecBytes.
MaxFullStates == 2

\* AddEmptyState is explored while the transition table has fewer entries
\* than this in SpecGrow (enough for the 256 ids of u8, and for two rows of
\* the full alphabet).
MaxCells == 520

\* Longest input handed to the search kernel.
MaxLen == 2

(***************************************************************************)
(* Program constants and the StateID capability.                           *)
(***************************************************************************)
ALPHABET_LEN == 256

\* The state identifier representations the model draws S and T from.
StateIDTypes == {"u8", "u16"}

\* The wider representations, which DFAs are also serialized in.
WideIDTypes == {"u32", "u64"}

\* 2^32 - 1 and 2^64 - 1 are beyond the integers of the model checker: for
\* u32 and u64 the largest of them, 2^31 - 1, stands for max_id.  No id of
\* the model comes near it.
max_id(S) ==
    IF S = "u8" THEN 255 ELSE IF S = "u16" THEN 65535 ELSE 2147483647

\* `n as S`: the value keeps the low bits of the representation.
from_usize(S, n) == IF S \in WideIDTypes THEN n ELSE n % (max_id(S) + 1)

\* mem::size_of::<S>().
size_of(S) ==
    CASE S = "u8" -> 1 [] S = "u16" -> 2 [] S = "u32" -> 4 [] S = "u64" -> 8

dead_id == 0

next_state_id(S, current) ==
    IF current + 1 > max_id(S)
    THEN [res |-> "StateIDOverflow", id |-> 0]
    ELSE [res |-> "ok", id |-> from_usize(S, current + 1)]

premultiply_overflow_error(S, last_state, alphabet_len) ==
    IF last_state * alphabet_len > max_id(S)
    THEN "PremultiplyOverflow"
    ELSE "ok"

(***************************************************************************)
(* DFAKind.                                                                *)
(***************************************************************************)
is_byte_class(kind) == kind \in {"ByteClass", "PremultipliedByteClass"}

is_premultiplied(kind) == kind \in {"Premultiplied", "PremultipliedByteClass"}

\* Called on unpremultiplied kinds only (premultiply returns early otherwise).
premultiplied(kind) ==
    IF kind = "Basic" THEN "Premultiplied" ELSE "PremultipliedByteClass"

(***************************************************************************)
(* Accessors.                                                              *)
(***************************************************************************)
state_id_to_offset(d, id) ==
    IF is_premultiplied(d.kind) THEN id ELSE id * d.alphabet_len

\* A faulty byte_to_class: the byte itself, whatever the kind.
byte_to_class_Raw(d, b) == b

byte_to_class(d, b) ==
    IF is_byte_class(d.kind) THEN d.byte_classes[b + 1] ELSE b

is_match_state(d, id) == id <= d.max_match /\ id # dead_id

\* The identifiers of the existing states of d, in d's encoding (what
\* StateIter yields).
StateIds(d) ==
    { from_usize(d.sid,
                 IF is_premultiplied(d.kind) THEN i * d.alphabet_len ELSE i) :
        i \in 0 .. (d.state_count - 1) }

\* The transitions of the state in row s (0-based): the chunk of
\* alphabet_len cells that StateIter hands to State.
Chunk(d, s) == SubSeq(d.trans, s * d.alphabet_len + 1, (s + 1) * d.alphabet_len)

\* One iteration of the loop of sparse_transitions, at column i: cur is
\* <<>> (None) or holds the one open range, ranges the ranges pushed so far.
sparse_step(transitions, i, st) ==
    LET b == i % 256
        next_id == transitions[i + 1]
    IN  IF st.cur = <<>>
        THEN [cur |-> << <<b, b, next_id>> >>, ranges |-> st.ranges]
        ELSE IF st.cur[1][3] = next_id
             THEN [cur |-> << <<st.cur[1][1], b, next_id>> >>,
                   ranges |-> st.ranges]
             ELSE [cur |-> << <<b, b, next_id>> >>,
                   ranges |-> Append(st.ranges, st.cur[1])]

\* The iterations for the columns lo .. hi-1, in column order, from the
\* loop state st.  The columns are stepped in two runs, the first run
\* evaluated before the second starts, which keeps the evaluation of a
\* 256-column row shallow; each column is still stepped once, left to
\* right.  (After a run of at least one column cur is never None, so the
\* test on left.cur always takes the second branch.)
RECURSIVE sparse_loop(_, _, _, _)
sparse_loop(transitions, lo, hi, st) ==
    IF lo >= hi THEN st
    ELSE IF hi = lo + 1 THEN sparse_step(transitions, lo, st)
    ELSE LET left == sparse_loop(transitions, lo, (lo + hi) \div 2, st)
         IN  IF left.cur = <<>> THEN left
             ELSE sparse_loop(transitions, (lo + hi) \div 2, hi, left)

\* A faulty sparse_transitions: the range still open after the loop is
\* never pushed.
sparse_transitions_OpenDropped(transitions) ==
    [res |-> "ok",
     ranges |-> sparse_loop(transitions, 0, Len(transitions),
                            [cur |-> <<>>, ranges |-> <<>>]).ranges]

\* cur.unwrap() panics on a row without columns.
sparse_transitions(transitions) ==
    LET r == sparse_loop(transitions, 0, Len(transitions),
                         [cur |-> <<>>, ranges |-> <<>>])
    IN  IF r.cur = <<>>
        THEN [res |-> "panic", ranges |-> <<>>]
        ELSE [res |-> "ok", ranges |-> Append(r.ranges, r.cur[1])]

(***************************************************************************)
(* Construction API.                                                       *)
(***************************************************************************)
\* Result of a call: the DFA afterwards, Ok/Err/panic, and the value returned.
Result(d, res, ret) == [dfa |-> d, res |-> res, ret |-> ret]

\* A faulty add_empty_state: the row is appended before the new id is
\* checked.
add_empty_state_ExtendFirst(d) ==
    LET nid == IF d.state_count = 0
               THEN [res |-> "ok", id |-> from_usize(d.sid, 0)]
               ELSE next_state_id(d.sid, from_usize(d.sid, d.state_count - 1))
        e == [d EXCEPT
                 !.trans = d.trans \o [i \in 1 .. d.alphabet_len |-> dead_id]]
    IN  IF nid.res # "ok"
        THEN Result(e, nid.res, 0)
        ELSE Result([e EXCEPT !.state_count = d.state_count + 1], "ok", nid.id)

add_empty_state(d) ==
    LET nid == IF d.state_count = 0
               THEN [res |-> "ok", id |-> from_usize(d.sid, 0)]
               ELSE next_state_id(d.sid, from_usize(d.sid, d.state_count - 1))
    IN  IF nid.res # "ok"
        THEN Result(d, nid.res, 0)
        ELSE Result([d EXCEPT
                        !.trans = d.trans \o [i \in 1 .. d.alphabet_len |-> dead_id],
                        !.state_count = d.state_count + 1],
                    "ok", nid.id)

empty_with_byte_classes(S, byte_classes) ==
    LET kind == IF byte_classes = <<>> THEN "Basic" ELSE "ByteClass"
        alphabet_len == IF byte_classes = <<>>
                        THEN ALPHABET_LEN
                        ELSE byte_classes[256] + 1
        d == [sid          |-> S,
              kind         |-> kind,
              start        |-> dead_id,
              state_count  |-> 0,
              max_match    |-> from_usize(S, 1),
              alphabet_len |-> alphabet_len,
              byte_classes |-> byte_classes,
              trans        |-> <<>>]
    IN  add_empty_state(d).dfa

set_start_state(d, start) ==
    IF start < d.state_count
    THEN Result([d EXCEPT !.start = start], "ok", 0)
    ELSE Result(d, "panic", 0)

set_transition(d, from, input, to) ==
    LET i == state_id_to_offset(d, from) + byte_to_class(d, input)
    IN  IF i < Len(d.trans)
        THEN Result([d EXCEPT !.trans[i + 1] = to], "ok", 0)
        ELSE Result(d, "panic", 0)

set_max_match_state(d, id) == [d EXCEPT !.max_match = id]

swap_states(d, id1, id2) ==
    LET o1 == state_id_to_offset(d, id1)
        o2 == state_id_to_offset(d, id2)
    IN  [d EXCEPT !.trans =
            [i \in 1 .. Len(d.trans) |->
                IF i - 1 >= o1 /\ i - 1 < o1 + d.alphabet_len
                THEN d.trans[o2 + (i - o1)]
                ELSE IF i - 1 >= o2 /\ i - 1 < o2 + d.alphabet_len
                     THEN d.trans[o1 + (i - o2)]
                     ELSE d.trans[i]]]

\* A faulty truncate_states: the table is cut to count entries, not rows.
truncate_states_Entries(d, count) ==
    [d EXCEPT !.trans = SubSeq(d.trans, 1, count),
              !.state_count = count]

truncate_states(d, count) ==
    [d EXCEPT !.trans = SubSeq(d.trans, 1, count * d.alphabet_len),
              !.state_count = count]

(***************************************************************************)
(* shuffle_match_states.                                                   *)
(***************************************************************************)
\* `while first_non_match < limit && is_match[first_non_match]`.
RECURSIVE AdvanceFirstNonMatch(_, _, _)
AdvanceFirstNonMatch(first_non_match, limit, is_match) ==
    IF first_non_match < limit /\ is_match[first_non_match + 1]
    THEN AdvanceFirstNonMatch(first_non_match + 1, limit, is_match)
    ELSE first_non_match

\* `while cur > first_non_match { ... cur -= 1 }`: the rows as swapped, the
\* swap table and the final first_non_match.
RECURSIVE ShuffleLoop(_, _, _, _, _)
ShuffleLoop(d, swaps, first_non_match, cur, is_match) ==
    IF cur > first_non_match
    THEN IF is_match[cur + 1]
         THEN ShuffleLoop(
                swap_states(d, from_usize(d.sid, cur),
                               from_usize(d.sid, first_non_match)),
                [swaps EXCEPT ![cur + 1] = from_usize(d.sid, first_non_match),
                              ![first_non_match + 1] = from_usize(d.sid, cur)],
                AdvanceFirstNonMatch(first_non_match + 1, cur, is_match),
                cur - 1, is_match)
         ELSE ShuffleLoop(d, swaps, first_non_match, cur - 1, is_match)
    ELSE [dfa |-> d, swaps |-> swaps, first_non_match |-> first_non_match]

\* A faulty ShuffleSwaps: first_non_match starts at the dead state.
ShuffleSwaps_FromDead(d, is_match) ==
    ShuffleLoop(d, [i \in 1 .. d.state_count |-> dead_id],
                AdvanceFirstNonMatch(0, d.state_count, is_match),
                d.state_count - 1, is_match)

\* The swap table shuffle_match_states builds for d and is_match.
ShuffleSwaps(d, is_match) ==
    ShuffleLoop(d, [i \in 1 .. d.state_count |-> dead_id],
                AdvanceFirstNonMatch(1, d.state_count, is_match),
                d.state_count - 1, is_match)

\* A faulty Remap: the stored ids are left as they were.
Remap_NotRewritten(swaps, id) == id

\* One stored id through the swap table.
Remap(swaps, id) == IF swaps[id + 1] # dead_id THEN swaps[id + 1] ELSE id

\* The table after the rewriting loop; indexing swaps past its end panics,
\* leaving the entries before it rewritten.
RewriteTrans(trans, swaps) ==
    LET bad == { i \in 1 .. Len(trans) : trans[i] >= Len(swaps) }
        stop == IF bad = {} THEN Len(trans) + 1
                ELSE CHOOSE i \in bad : \A j \in bad : i <= j
    IN  [trans |-> [i \in 1 .. Len(trans) |->
                        IF i < stop THEN Remap(swaps, trans[i]) ELSE trans[i]],
         panicked |-> bad # {}]

shuffle_match_states(d, is_match) ==
    IF is_premultiplied(d.kind)
    THEN Result(d, "panic", 0)
    ELSE IF d.state_count <= 2
    THEN Result(d, "ok", 0)
    ELSE LET lp == ShuffleSwaps(d, is_match)
             rw == RewriteTrans(lp.dfa.trans, lp.swaps)
             d1 == [lp.dfa EXCEPT !.trans = rw.trans]
         IN  IF rw.panicked \/ d1.start >= Len(lp.swaps)
             THEN Result(d1, "panic", 0)
             ELSE Result([d1 EXCEPT
                             !.start = Remap(lp.swaps, d1.start),
                             !.max_match =
                                 from_usize(d.sid, lp.first_non_match - 1)],
                         "ok", 0)

(***************************************************************************)
(* minimize.  The partition refinement of the Minimizer: two states are    *)
(* in one block iff both or neither are match states and, on every class,  *)
(* their transitions lead to one block.  A block is named by its least     *)
(* state; the blocks, in the order of their names, are the states kept.    *)
(***************************************************************************)
\* The blocks to start from: the match states, and the others.
InitialBlocks(d) ==
    [s \in 0 .. (d.state_count - 1) |->
        CHOOSE t \in 0 .. s :
            /\ is_match_state(d, t) <=> is_match_state(d, s)
            /\ \A u \in 0 .. (t - 1) :
                  ~(is_match_state(d, u) <=> is_match_state(d, s))]

\* s and t stay together in one round of refinement.
Together(d, block, s, t) ==
    /\ block[s] = block[t]
    /\ \A c \in 1 .. d.alphabet_len :
          block[d.trans[s * d.alphabet_len + c]]
              = block[d.trans[t * d.alphabet_len + c]]

RECURSIVE Refine(_, _, _)
Refine(d, block, rounds) ==
    LET finer == [s \in DOMAIN block |->
                    CHOOSE t \in 0 .. s :
                        /\ Together(d, block, s, t)
                        /\ \A u \in 0 .. (t - 1) : ~Together(d, block, s, u)]
    IN  IF rounds = 0 \/ finer = block
        THEN block
        ELSE Refine(d, finer, rounds - 1)

\* Minimizer::new(dfa).run(): the states kept are renumbered in order, the
\* table, start and max_match rewritten to them.
Minimizer_run(d) ==
    LET block == Refine(d, InitialBlocks(d), d.state_count)
        kept == { block[s] : s \in DOMAIN block }
        new_id == [s \in DOMAIN block |->
                     Cardinality({ k \in kept : k < block[s] })]
        old_of == [i \in 0 .. (Cardinality(kept) - 1) |->
                     CHOOSE k \in kept : new_id[k] = i]
        matches == { new_id[s] : s \in { t \in DOMAIN block :
                                            is_match_state(d, t) } }
    IN  [d EXCEPT
           !.state_count = Cardinality(kept),
           !.trans = [i \in 1 .. (Cardinality(kept) * d.alphabet_len) |->
                        new_id[d.trans[old_of[(i - 1) \div d.alphabet_len]
                                         * d.alphabet_len
                                       + ((i - 1) % d.alphabet_len) + 1]]],
           !.start = new_id[d.start],
           !.max_match = IF matches = {} THEN dead_id
                         ELSE CHOOSE m \in matches : \A k \in matches : k <= m]

\* A faulty minimize: no assertion, the Minimizer runs on the premultiplied
\* table as on any other.
minimize_Unasserted(d) == Result(Minimizer_run(d), "ok", 0)

minimize(d) ==
    IF is_premultiplied(d.kind)
    THEN Result(d, "panic", 0)
    ELSE Result(Minimizer_run(d), "ok", 0)

(***************************************************************************)
(* Transformations.                                                        *)
(***************************************************************************)
\* A faulty premultiply: the ids are multiplied before the overflow check.
premultiply_CheckAfter(d) ==
    LET e == [d EXCEPT
                 !.trans = [i \in 1 .. Len(d.trans) |->
                               from_usize(d.sid, d.trans[i] * d.alphabet_len)],
                 !.start = from_usize(d.sid, d.start * d.alphabet_len),
                 !.max_match = from_usize(d.sid, d.max_match * d.alphabet_len)]
        err == premultiply_overflow_error(
                   d.sid, from_usize(d.sid, d.state_count - 1), d.alphabet_len)
    IN  IF is_premultiplied(d.kind) \/ d.state_count = 0
        THEN Result(d, "ok", 0)
        ELSE IF err # "ok"
             THEN Result(e, err, 0)
             ELSE Result([e EXCEPT !.kind = premultiplied(d.kind)], "ok", 0)

\* A faulty premultiply: max_match keeps its unpremultiplied value.
premultiply_MaxMatchKept(d) ==
    IF is_premultiplied(d.kind) \/ d.state_count = 0
    THEN Result(d, "ok", 0)
    ELSE IF premultiply_overflow_error(
                d.sid, from_usize(d.sid, d.state_count - 1), d.alphabet_len) # "ok"
    THEN Result(d, "PremultiplyOverflow", 0)
    ELSE Result([d EXCEPT
                    !.trans = [i \in 1 .. Len(d.trans) |->
                                  from_usize(d.sid, d.trans[i] * d.alphabet_len)],
                    !.kind = premultiplied(d.kind),
                    !.start = from_usize(d.sid, d.start * d.alphabet_len)],
                "ok", 0)

\* A faulty premultiply: the start id keeps its unpremultiplied value.
premultiply_StartKept(d) ==
    IF is_premultiplied(d.kind) \/ d.state_count = 0
    THEN Result(d, "ok", 0)
    ELSE IF premultiply_overflow_error(
                d.sid, from_usize(d.sid, d.state_count - 1), d.alphabet_len) # "ok"
    THEN Result(d, "PremultiplyOverflow", 0)
    ELSE Result([d EXCEPT
                    !.trans = [i \in 1 .. Len(d.trans) |->
                                  from_usize(d.sid, d.trans[i] * d.alphabet_len)],
                    !.kind = premultiplied(d.kind),
                    !.max_match =
                        from_usize(d.sid, d.max_match * d.alphabet_len)],
                "ok", 0)

\* A faulty premultiply: the ids of a premultiplied DFA are multiplied
\* again.
premultiply_Again(d) ==
    IF d.state_count = 0
    THEN Result(d, "ok", 0)
    ELSE IF premultiply_overflow_error(
                d.sid, from_usize(d.sid, d.state_count - 1), d.alphabet_len) # "ok"
    THEN Result(d, "PremultiplyOverflow", 0)
    ELSE Result([d EXCEPT
                    !.trans = [i \in 1 .. Len(d.trans) |->
                                  from_usize(d.sid, d.trans[i] * d.alphabet_len)],
                    !.kind = IF is_premultiplied(d.kind) THEN d.kind
                             ELSE premultiplied(d.kind),
                    !.start = from_usize(d.sid, d.start * d.alphabet_len),
                    !.max_match =
                        from_usize(d.sid, d.max_match * d.alphabet_len)],
                "ok", 0)

premultiply(d) ==
    IF is_premultiplied(d.kind) \/ d.state_count = 0
    THEN Result(d, "ok", 0)
    ELSE LET alpha_len == d.alphabet_len
             err == premultiply_overflow_error(
                        d.sid, from_usize(d.sid, d.state_count - 1), alpha_len)
         IN  IF err # "ok"
             THEN Result(d, err, 0)
             ELSE Result([d EXCEPT
                            !.trans = [i \in 1 .. Len(d.trans) |->
                                          from_usize(d.sid, d.trans[i] * alpha_len)],
                            !.kind = premultiplied(d.kind),
                            !.start = from_usize(d.sid, d.start * alpha_len),
                            !.max_match =
                                from_usize(d.sid, d.max_match * alpha_len)],
                         "ok", 0)

\* No DFA returned.
NoDFA == [sid |-> "none"]

\* Result of to_sized: the source DFA, Ok/Err/panic, and the DFA returned.
Sized(d, res, sized) == [dfa |-> d, res |-> res, sized |-> sized]

\* A faulty to_sized: the largest id of a premultiplied DFA is taken to be
\* state_count - 1.
to_sized_Unscaled(d, T) ==
    IF d.state_count - 1 > max_id(T)
    THEN { Sized(d, "StateIDOverflow", NoDFA) }
    ELSE { Sized(d, "ok",
              [sid          |-> T,
               kind         |-> d.kind,
               start        |-> from_usize(T, d.start),
               state_count  |-> d.state_count,
               max_match    |-> from_usize(T, d.max_match),
               alphabet_len |-> d.alphabet_len,
               byte_classes |-> d.byte_classes,
               trans        |-> [i \in 1 .. Len(d.trans) |->
                                    from_usize(T, d.trans[i])]]) }

\* The outcomes of to_sized::<T>: the source DFA, Ok/Err, and the new DFA.
\* With no state at all `state_count - 1` underflows: a panic where overflow
\* is checked, and otherwise a huge last_state_id that no T holds.
to_sized(d, T) ==
    IF d.state_count = 0
    THEN { Sized(d, "panic", NoDFA), Sized(d, "StateIDOverflow", NoDFA) }
    ELSE LET last_state_id ==
                 IF is_premultiplied(d.kind)
                 THEN (d.state_count - 1) * d.alphabet_len
                 ELSE d.state_count - 1
         IN  IF last_state_id > max_id(T)
             THEN { Sized(d, "StateIDOverflow", NoDFA) }
             ELSE { Sized(d, "ok",
                       [sid          |-> T,
                        kind         |-> d.kind,
                        start        |-> from_usize(T, d.start),
                        state_count  |-> d.state_count,
                        max_match    |-> from_usize(T, d.max_match),
                        alphabet_len |-> d.alphabet_len,
                        byte_classes |-> d.byte_classes,
                        trans        |-> [i \in 1 .. Len(d.trans) |->
                                             from_usize(T, d.trans[i])]]) }

(***************************************************************************)
(* Serialization.  A buffer is a sequence of bytes; the generic parameter  *)
(* T of to_bytes is a byte order, NativeEndian being the order of the      *)
(* machine the code was built for.                                         *)
(***************************************************************************)
ByteOrders == {"LittleEndian", "BigEndian", "NativeEndian"}

\* target_endian of a build.
Machines == {"LittleEndian", "BigEndian"}

ByteOrderOf(T, machine) == IF T = "NativeEndian" THEN machine ELSE T

\* b"rust-regex-automata-dfa\x00".
label ==
    <<114, 117, 115, 116, 45, 114, 101, 103, 101, 120, 45, 97, 117, 116, 111,
      109, 97, 116, 97, 45, 100, 102, 97, 0>>

Reverse(q) == [i \in 1 .. Len(q) |-> q[Len(q) + 1 - i]]

\* Byte j (0 the least significant) of n.
RECURSIVE low_byte(_, _)
low_byte(n, j) == IF j = 0 THEN n % 256 ELSE low_byte(n \div 256, j - 1)

\* The byte at offset i of the width bytes T::write_uN puts for `n as uN`.
byte_of(order, n, width, i) ==
    low_byte(n, IF order = "LittleEndian" THEN i ELSE width - 1 - i)

\* T::write_u16, write_u32, write_u64 of `n as uN`, N = 8 * width.
write_uint(order, n, width) ==
    [i \in 1 .. width |-> byte_of(order, n, width, i - 1)]

RECURSIVE ValueOf(_)
ValueOf(low_first) ==
    IF low_first = <<>> THEN 0
    ELSE Head(low_first) + 256 * ValueOf(Tail(low_first))

\* T::read_u16, read_u32, read_u64 at the zero-based offset `at`.
read_uint(order, buf, at, width) ==
    LET b == SubSeq(buf, at + 1, at + width)
    IN  ValueOf(IF order = "LittleEndian" THEN b ELSE Reverse(b))

\* A faulty to_byte: the codes of Premultiplied and ByteClass are exchanged.
to_byte_Exchanged(kind) ==
    CASE kind = "Basic" -> 0
      [] kind = "Premultiplied" -> 2
      [] kind = "ByteClass" -> 1
      [] kind = "PremultipliedByteClass" -> 3

to_byte(kind) ==
    CASE kind = "Basic" -> 0
      [] kind = "Premultiplied" -> 1
      [] kind = "ByteClass" -> 2
      [] kind = "PremultipliedByteClass" -> 3

\* ret: the kind, or the panic on an invalid byte.
from_byte(b) ==
    CASE b = 0 -> [res |-> "ok", kind |-> "Basic"]
      [] b = 1 -> [res |-> "ok", kind |-> "Premultiplied"]
      [] b = 2 -> [res |-> "ok", kind |-> "ByteClass"]
      [] b = 3 -> [res |-> "ok", kind |-> "PremultipliedByteClass"]
      [] OTHER -> [res |-> "panic", kind |-> "Basic"]

\* The result of to_bytes: Ok(buf) or Err.
Serialized(res, buf) == [res |-> res, buf |-> buf]

\* A faulty to_bytes: the class map of a DFA without byte classes is left
\* at the zeros the buffer was created with.
to_bytes_NoIdentityMap(d, order) ==
    LET state_size == size_of(d.sid)
    IN  IF state_size \notin {1, 2, 4, 8}
        THEN Serialized("SerializeError", <<>>)
        ELSE Serialized("ok",
               label
               \o write_uint(order, 65279, 2)
               \o write_uint(order, 1, 2)
               \o write_uint(order, state_size, 2)
               \o write_uint(order, to_byte(d.kind), 2)
               \o write_uint(order, d.start, 8)
               \o write_uint(order, d.state_count, 8)
               \o write_uint(order, d.max_match, 8)
               \o write_uint(order, d.alphabet_len, 8)
               \o (IF d.byte_classes = <<>>
                   THEN [b \in 1 .. 256 |-> 0]
                   ELSE d.byte_classes)
               \o [k \in 1 .. (Len(d.trans) * state_size) |->
                     byte_of(order, d.trans[((k - 1) \div state_size) + 1],
                             state_size, (k - 1) % state_size)])

\* to_bytes::<T>, T's byte order being `order`.  0xFEFF is 65279.
to_bytes(d, order) ==
    LET state_size == size_of(d.sid)
    IN  IF state_size \notin {1, 2, 4, 8}
        THEN Serialized("SerializeError", <<>>)
        ELSE Serialized("ok",
               label
               \o write_uint(order, 65279, 2)
               \o write_uint(order, 1, 2)
               \o write_uint(order, state_size, 2)
               \o write_uint(order, to_byte(d.kind), 2)
               \o write_uint(order, d.start, 8)
               \o write_uint(order, d.state_count, 8)
               \o write_uint(order, d.max_match, 8)
               \o write_uint(order, d.alphabet_len, 8)
               \o (IF d.byte_classes = <<>>
                   THEN [b \in 1 .. 256 |-> b - 1]
                   ELSE d.byte_classes)
               \o [k \in 1 .. (Len(d.trans) * state_size) |->
                     byte_of(order, d.trans[((k - 1) \div state_size) + 1],
                             state_size, (k - 1) % state_size)])

\* from_bytes::<S> on a machine of byte order `machine`: DFARef::from_bytes
\* asserts the label and the endianness marker and reads the rest as it
\* is; DFA::from_bytes copies the fields.  The buffer is 8-byte aligned, as
\* the buffers to_bytes returns are.
from_bytes(S, buf, machine) ==
    IF \/ Len(buf) < 320
       \/ SubSeq(buf, 1, 24) # label
       \/ read_uint(machine, buf, 24, 2) # 65279
    THEN Result(NoDFA, "panic", 0)
    ELSE LET kind == from_byte(read_uint(machine, buf, 30, 2) % 256)
             state_count == read_uint(machine, buf, 40, 8)
             alphabet_len == read_uint(machine, buf, 56, 8)
             state_size == size_of(S)
         IN  IF \/ kind.res = "panic"
                \/ Len(buf) < 320 + state_count * alphabet_len * state_size
             THEN Result(NoDFA, "panic", 0)
             ELSE Result(
                    [sid |-> S,
                     kind |-> kind.kind,
                     start |-> from_usize(S, read_uint(machine, buf, 32, 8)),
                     state_count |-> state_count,
                     max_match |->
                         from_usize(S, read_uint(machine, buf, 48, 8)),
                     alphabet_len |-> alphabet_len,
                     byte_classes |-> SubSeq(buf, 65, 320),
                     trans |-> [i \in 1 .. (state_count * alphabet_len) |->
                                  read_uint(machine, buf,
                                            320 + (i - 1) * state_size,
                                            state_size)]],
                    "ok", 0)

(***************************************************************************)
(* The search kernel find: leftmost-first end offset.                      *)
(***************************************************************************)
NoMatch == [tag |-> "None", at |-> 0]

Match(at) == [tag |-> "Some", at |-> at]

\* The unchecked table read fell outside the table.
OutOfBounds == [tag |-> "OutOfBounds", at |-> 0]

RECURSIVE find_from(_, _, _, _, _)
find_from(d, bytes, i, state, last_match) ==
    IF i > Len(bytes)
    THEN last_match
    ELSE LET o == state_id_to_offset(d, state) + byte_to_class(d, bytes[i])
         IN  IF o >= Len(d.trans)
             THEN OutOfBounds
             ELSE LET next == d.trans[o + 1]
                  IN  IF next = dead_id
                      THEN last_match
                      ELSE IF next <= d.max_match
                           THEN find_from(d, bytes, i + 1, next, Match(i))
                           ELSE find_from(d, bytes, i + 1, next, last_match)

find(d, bytes) == find_from(d, bytes, 1, d.start, NoMatch)

(***************************************************************************)
(* The search kernels is_match, shortest_match and rfind.                  *)
(***************************************************************************)
Yes == [tag |-> "true", at |-> 0]

No == [tag |-> "false", at |-> 0]

\* On each byte, step: dead answers false, a match state true; at the end
\* of the input, whether the current state is a match state.
RECURSIVE is_match_from(_, _, _, _)
is_match_from(d, bytes, i, state) ==
    IF i > Len(bytes)
    THEN IF is_match_state(d, state) THEN Yes ELSE No
    ELSE LET o == state_id_to_offset(d, state) + byte_to_class(d, bytes[i])
         IN  IF o >= Len(d.trans)
             THEN OutOfBounds
             ELSE LET next == d.trans[o + 1]
                  IN  IF next = dead_id
                      THEN No
                      ELSE IF next <= d.max_match
                           THEN Yes
                           ELSE is_match_from(d, bytes, i + 1, next)

is_match(d, bytes) == is_match_from(d, bytes, 1, d.start)

\* A faulty shortest_match: None at the end of the input, whatever the
\* current state.
RECURSIVE shortest_match_from_EndNone(_, _, _, _)
shortest_match_from_EndNone(d, bytes, i, state) ==
    IF i > Len(bytes)
    THEN NoMatch
    ELSE LET o == state_id_to_offset(d, state) + byte_to_class(d, bytes[i])
         IN  IF o >= Len(d.trans)
             THEN OutOfBounds
             ELSE LET next == d.trans[o + 1]
                  IN  IF next = dead_id
                      THEN NoMatch
                      ELSE IF next <= d.max_match
                           THEN Match(i)
                           ELSE shortest_match_from_EndNone(d, bytes, i + 1,
                                                            next)

\* As is_match, answering the offset just past the byte that matched.
RECURSIVE shortest_match_from(_, _, _, _)
shortest_match_from(d, bytes, i, state) ==
    IF i > Len(bytes)
    THEN IF is_match_state(d, state) THEN Match(i - 1) ELSE NoMatch
    ELSE LET o == state_id_to_offset(d, state) + byte_to_class(d, bytes[i])
         IN  IF o >= Len(d.trans)
             THEN OutOfBounds
             ELSE LET next == d.trans[o + 1]
                  IN  IF next = dead_id
                      THEN NoMatch
                      ELSE IF next <= d.max_match
                           THEN Match(i)
                           ELSE shortest_match_from(d, bytes, i + 1, next)

shortest_match(d, bytes) == shortest_match_from(d, bytes, 1, d.start)

\* As find, over the bytes from the last to the first, answering the
\* offset of the byte at which the last match was seen.
RECURSIVE rfind_from(_, _, _, _, _)
rfind_from(d, bytes, i, state, last_match) ==
    IF i < 1
    THEN last_match
    ELSE LET o == state_id_to_offset(d, state) + byte_to_class(d, bytes[i])
         IN  IF o >= Len(d.trans)
             THEN OutOfBounds
             ELSE LET next == d.trans[o + 1]
                  IN  IF next = dead_id
                      THEN last_match
                      ELSE IF next <= d.max_match
                           THEN rfind_from(d, bytes, i - 1, next, Match(i - 1))
                           ELSE rfind_from(d, bytes, i - 1, next, last_match)

rfind(d, bytes) == rfind_from(d, bytes, Len(bytes), d.start, NoMatch)

(***************************************************************************)
(* The state machine: one DFA under construction, and the record of the    *)
(* last call made on it.  A panic ends the run.                            *)
(***************************************************************************)
\* No byte classes: DFA::empty().
NoClasses == <<>>

\* Every byte in class 0.
OneClass == [i \in 1 .. 256 |-> 0]

\* Bytes 0..127 in class 0, bytes 128..255 in class 1.
HalvesClasses == [i \in 1 .. 256 |-> IF i <= 128 THEN 0 ELSE 1]

\* Even bytes in class 0, odd bytes in class 1: not monotone in byte order.
ParityClasses == [i \in 1 .. 256 |-> (i - 1) % 2]

\* Byte 0 in class 1, every other byte in class 0: not monotone, and the
\* last byte is not in the largest class.
FirstByteClasses == [i \in 1 .. 256 |-> IF i = 1 THEN 1 ELSE 0]

\* The input bytes the model hands to set_transition and to the search.
InputBytes == {0, 255}

\* The is_match slices of the determinizer: one flag per state, the dead
\* state never flagged.
Flags(n) ==
    IF n = 0 THEN {<<>>} ELSE { f \in [1 .. n -> BOOLEAN] : f[1] = FALSE }

\* The record of a call: the operation, Ok/Err/panic, the id returned, and
\* for shuffle_match_states the flags given, for to_sized the target type
\* and the DFA returned, for to_bytes the byte order T, the machine and the
\* buffer returned, for from_bytes the byte order of the buffer read and
\* the machine.
Called(op, res, ret) ==
    [op |-> op, res |-> res, ret |-> ret,
     flags |-> <<>>, target |-> "", sized |-> NoDFA,
     order |-> "", machine |-> "", bytes |-> <<>>]

Live == last.res # "panic"

InitWith(types, maps) ==
    \E S \in types, byte_classes \in maps :
        /\ dfa = empty_with_byte_classes(S, byte_classes)
        /\ last = Called("empty_with_byte_classes", "ok", 0)

AddEmptyState(room) ==
    /\ Live
    /\ room
    /\ LET r == add_empty_state(dfa)
       IN  /\ dfa' = r.dfa
           /\ last' = Called("add_empty_state", r.res, r.ret)

\* The callers wire the states they added: a transition out of the dead
\* state is never set.
NonDeadIds(d) == StateIds(d) \ {dead_id}

SetTransition ==
    /\ Live
    /\ \E from \in NonDeadIds(dfa), to \in StateIds(dfa), input \in InputBytes :
          LET r == set_transition(dfa, from, input, to)
          IN  /\ dfa' = r.dfa
              /\ last' = Called("set_transition", r.res, 0)

SetStartState ==
    /\ Live
    /\ \E start \in StateIds(dfa) :
          LET r == set_start_state(dfa, start)
          IN  /\ dfa' = r.dfa
              /\ last' = Called("set_start_state", r.res, 0)

SetMaxMatchState ==
    /\ Live
    /\ \E id \in StateIds(dfa) :
          /\ dfa' = set_max_match_state(dfa, id)
          /\ last' = Called("set_max_match_state", "ok", 0)

SwapStates ==
    /\ Live
    /\ \E id1 \in StateIds(dfa), id2 \in StateIds(dfa) :
          /\ dfa' = swap_states(dfa, id1, id2)
          /\ last' = Called("swap_states", "ok", 0)

TruncateStates ==
    /\ Live
    /\ \E count \in 0 .. dfa.state_count :
          /\ dfa' = truncate_states(dfa, count)
          /\ last' = Called("truncate_states", "ok", 0)

ShuffleMatchStates ==
    /\ Live
    /\ \E is_match_flags \in Flags(dfa.state_count) :
          LET r == shuffle_match_states(dfa, is_match_flags)
          IN  /\ dfa' = r.dfa
              /\ last' = [Called("shuffle_match_states", r.res, 0)
                            EXCEPT !.flags = is_match_flags]

Premultiply ==
    /\ Live
    /\ LET r == premultiply(dfa)
       IN  /\ dfa' = r.dfa
           /\ last' = Called("premultiply", r.res, 0)

\* to_sized takes &self: the call leaves the DFA alone and returns a new one.
ToSized ==
    /\ Live
    /\ \E T \in StateIDTypes :
          \E r \in to_sized(dfa, T) :
              /\ dfa' = r.dfa
              /\ last' = [Called("to_sized", r.res, 0)
                            EXCEPT !.target = T, !.sized = r.sized]

\* The caller goes on with the DFA to_sized returned
\* (`initial.to_u16()?.to_bytes_native_endian()`).
UseSized ==
    /\ Live
    /\ last.op = "to_sized"
    /\ last.res = "ok"
    /\ dfa' = last.sized
    /\ last' = Called("use_sized", "ok", 0)

(***************************************************************************)
(* Spec: the construction lifecycle of a DFA, from empty.                  *)
(***************************************************************************)
Init == InitWith(StateIDTypes, {OneClass, HalvesClasses})

Next ==
    \/ AddEmptyState(dfa.state_count < MaxStates)
    \/ SetTransition
    \/ SetStartState
    \/ ShuffleMatchStates
    \/ Premultiply
    \/ ToSized
    \/ UseSized

Spec == Init /\ [][Next]_vars

(***************************************************************************)
(* SpecFull: every mutating operation of the construction API, the ones    *)
(* the minimizer uses included.                                            *)
(***************************************************************************)
InitFull == InitWith({"u8"}, {OneClass, HalvesClasses})

NextFull ==
    \/ AddEmptyState(dfa.state_count < MaxFullStates)
    \/ SetTransition
    \/ SetStartState
    \/ SetMaxMatchState
    \/ SwapStates
    \/ TruncateStates
    \/ ShuffleMatchStates
    \/ Premultiply
    \/ ToSized
    \/ UseSized

SpecFull == InitFull /\ [][NextFull]_vars

(***************************************************************************)
(* SpecGrow: a DFA grown state by state until its identifiers no longer    *)
(* fit, with and without byte classes.                                     *)
(***************************************************************************)
InitGrow == InitWith(StateIDTypes, {NoClasses, OneClass, HalvesClasses})

NextGrow ==
    \/ AddEmptyState(Len(dfa.trans) < MaxCells)
    \/ Premultiply
    \/ ToSized
    \/ UseSized

SpecGrow == InitGrow /\ [][NextGrow]_vars

(***************************************************************************)
(* SpecClasses: DFAs created over class maps of every shape and wired by   *)
(* the determinizer.                                                       *)
(***************************************************************************)
InitClasses ==
    InitWith({"u8"}, {NoClasses, OneClass, HalvesClasses, ParityClasses,
                      FirstByteClasses})

NextClasses ==
    \/ AddEmptyState(dfa.state_count < MaxStates)
    \/ SetTransition
    \/ SetStartState
    \/ Premultiply

SpecClasses == InitClasses /\ [][NextClasses]_vars

(***************************************************************************)
(* SpecLifecycle: the lifecycle of a DFA, from the determinizer's calls    *)
(* through shuffle_match_states and minimize to premultiply and to_sized.  *)
(***************************************************************************)
Minimize ==
    /\ Live
    /\ LET r == minimize(dfa)
       IN  /\ dfa' = r.dfa
           /\ last' = Called("minimize", r.res, 0)

InitLifecycle == InitWith({"u8"}, {OneClass, HalvesClasses})

NextLifecycle ==
    \/ AddEmptyState(dfa.state_count < MaxStates)
    \/ SetTransition
    \/ SetStartState
    \/ ShuffleMatchStates
    \/ Minimize
    \/ Premultiply
    \/ ToSized
    \/ UseSized

SpecLifecycle == InitLifecycle /\ [][NextLifecycle]_vars

(***************************************************************************)
(* SpecBytes: DFAs of every id width are wired, premultiplied, written to  *)
(* bytes in every byte order and read back on either kind of machine.      *)
(***************************************************************************)
ToBytes ==
    /\ Live
    /\ \E T \in ByteOrders, machine \in Machines :
          LET r == to_bytes(dfa, ByteOrderOf(T, machine))
          IN  /\ dfa' = dfa
              /\ last' = [Called("to_bytes", r.res, 0)
                            EXCEPT !.order = T, !.machine = machine,
                                   !.bytes = r.buf]

\* `unsafe { DFA::from_bytes(&bytes) }` on the buffer just written.
FromBytes ==
    /\ Live
    /\ last.op = "to_bytes"
    /\ last.res = "ok"
    /\ \E machine \in Machines :
          LET r == from_bytes(dfa.sid, last.bytes, machine)
          IN  /\ dfa' = IF r.res = "ok" THEN r.dfa ELSE dfa
              /\ last' = [Called("from_bytes", r.res, 0)
                            EXCEPT !.order = last.order, !.machine = machine]

InitBytes ==
    InitWith(StateIDTypes \cup WideIDTypes, {NoClasses, HalvesClasses})

NextBytes ==
    \/ AddEmptyState(dfa.state_count < MaxFullStates)
    \/ SetTransition
    \/ SetStartState
    \/ Premultiply
    \/ ToBytes
    \/ FromBytes

SpecBytes == InitBytes /\ [][NextBytes]_vars

(***************************************************************************)
(* Vocabulary of the properties.                                           *)
(***************************************************************************)
\* The inputs searched: every string over InputBytes of at most MaxLen bytes.
Inputs == UNION { [1 .. k -> InputBytes] : k \in 0 .. MaxLen }

\* The cell of row s (a state index), column c of d's table.
Cell(d, s, c) == d.trans[s * d.alphabet_len + c + 1]

\* The renamings of n states that keep the dead state in place.
Renamings(n) ==
    { p \in [0 .. (n - 1) -> 0 .. (n - 1)] :
        /\ p[0] = 0
        /\ \A a, b \in 0 .. (n - 1) : p[a] = p[b] => a = b }

\* e is d with its states renamed by p.
IsRenaming(p, d, e) ==
    /\ e.state_count = d.state_count
    /\ e.alphabet_len = d.alphabet_len
    /\ e.start = p[d.start]
    /\ \A s \in 0 .. (d.state_count - 1), c \in 0 .. (d.alphabet_len - 1) :
          Cell(e, p[s], c) = p[Cell(d, s, c)]

\* The step just taken was a call of op.
Did(op) == last'.op = op

(***************************************************************************)
(* C1.  After shuffle_match_states(is_match) on an unpremultiplied DFA     *)
(* with is_match[0] = false, the states flagged true occupy exactly the    *)
(* ids 1..=max_match: is_match_state(new id of s) is true iff is_match[s]  *)
(* was true, for DFAs of 1 or 2 states and with no match state too.        *)
(***************************************************************************)
C1_ShufflePartitionsMatchStates ==
    [][ (Did("shuffle_match_states") /\ last'.res = "ok")
        => \E p \in Renamings(dfa.state_count) :
             /\ IsRenaming(p, dfa, dfa')
             /\ \A s \in 0 .. (dfa.state_count - 1) :
                   is_match_state(dfa', p[s]) <=> last'.flags[s + 1] ]_vars

(***************************************************************************)
(* C2.  shuffle_match_states only renames states: some permutation p of    *)
(* the state ids with p(0) = 0 gives trans'[p(s)][c] = p(trans[s][c]) for  *)
(* every state s and class c, and start' = p(start); state_count and       *)
(* alphabet_len are unchanged.                                             *)
(***************************************************************************)
C2_ShuffleOnlyRenames ==
    [][ (Did("shuffle_match_states") /\ last'.res = "ok")
        => /\ \E p \in Renamings(dfa.state_count) : IsRenaming(p, dfa, dfa')
           /\ dfa'.state_count = dfa.state_count
           /\ dfa'.alphabet_len = dfa.alphabet_len
           /\ dfa'.kind = dfa.kind
           /\ dfa'.byte_classes = dfa.byte_classes ]_vars

\* A shuffle has moved the match state 2 in front of the non-match state 1,
\* in a DFA whose rows and start refer to the moved states.
C2_Witness ==
    /\ last.op = "shuffle_match_states"
    /\ last.res = "ok"
    /\ last.flags = <<FALSE, FALSE, TRUE>>
    /\ dfa.state_count = 3
    /\ dfa.alphabet_len = 2
    /\ dfa.start = 2
    /\ Cell(dfa, 2, 0) = 1
    /\ Cell(dfa, 2, 1) = 2
    /\ Cell(dfa, 1, 1) = 1

(***************************************************************************)
(* C3.  premultiply on a not-yet-premultiplied DFA returns the premultiply *)
(* overflow error exactly when (state_count - 1) * alphabet_len exceeds    *)
(* max_id of the state-id type, and then kind, start, max_match and every  *)
(* transition are unchanged.                                               *)
(***************************************************************************)
C3_PremultiplyOverflowBeforeMutation ==
    [][ (Did("premultiply") /\ ~is_premultiplied(dfa.kind))
        => /\ (last'.res = "PremultiplyOverflow")
                <=> ((dfa.state_count - 1) * dfa.alphabet_len > max_id(dfa.sid))
           /\ last'.res \in {"ok", "PremultiplyOverflow"}
           /\ last'.res = "PremultiplyOverflow" => dfa' = dfa ]_vars

\* premultiply has failed on a u8 DFA of two states over the full alphabet,
\* and has left it unpremultiplied.
C3_Witness ==
    /\ last.op = "premultiply"
    /\ last.res = "PremultiplyOverflow"
    /\ dfa.sid = "u8"
    /\ dfa.kind = "Basic"
    /\ dfa.state_count = 2

(***************************************************************************)
(* C4.  Premultiplication preserves semantics: whenever premultiply        *)
(* succeeds, the premultiplied DFA steps to the premultiplied image of the *)
(* state the original steps to, classifies it the same way against         *)
(* max_match, and find(x) is the same for every input x.                   *)
(***************************************************************************)
C4_PremultiplyPreservesFind ==
    [][ (Did("premultiply") /\ last'.res = "ok" /\ ~is_premultiplied(dfa.kind))
        => /\ is_premultiplied(dfa'.kind)
           /\ dfa'.start = dfa.start * dfa.alphabet_len
           /\ \A s \in 0 .. (dfa.state_count - 1) :
                 /\ is_match_state(dfa', s * dfa.alphabet_len)
                      <=> is_match_state(dfa, s)
                 /\ \A b \in InputBytes :
                       dfa'.trans[state_id_to_offset(dfa', s * dfa.alphabet_len)
                                    + byte_to_class(dfa', b) + 1]
                         = dfa.alphabet_len
                             * dfa.trans[state_id_to_offset(dfa, s)
                                           + byte_to_class(dfa, b) + 1]
           /\ \A x \in Inputs : find(dfa', x) = find(dfa, x) ]_vars

\* A DFA of three states over two classes has been premultiplied, and finds
\* a match of length 2.
C4_Witness ==
    /\ last.op = "premultiply"
    /\ last.res = "ok"
    /\ dfa.kind = "PremultipliedByteClass"
    /\ dfa.state_count = 3
    /\ dfa.alphabet_len = 2
    /\ dfa.max_match = 2
    /\ find(dfa, <<0, 255>>) = Match(2)

(***************************************************************************)
(* C5.  to_sized<T> fails with StateIDOverflow exactly when the largest    *)
(* state id of the DFA (state_count - 1 when unpremultiplied,              *)
(* (state_count - 1) * alphabet_len when premultiplied) exceeds T's        *)
(* maximum id, and succeeds otherwise; the source DFA is not modified.     *)
(***************************************************************************)
LargestId(d) ==
    IF d.kind \in {"Premultiplied", "PremultipliedByteClass"}
    THEN (d.state_count - 1) * d.alphabet_len
    ELSE d.state_count - 1

C5_ToSizedOverflowExactly ==
    [][ Did("to_sized")
        => /\ dfa' = dfa
           /\ last'.res \in {"ok", "StateIDOverflow"}
           /\ (last'.res = "StateIDOverflow")
                <=> (LargestId(dfa) > max_id(last'.target))
           /\ last'.res = "ok" => last'.sized.sid = last'.target ]_vars

\* to_sized::<u8> has refused a premultiplied u16 DFA whose largest id, 256,
\* is past u8 although it has only two states.
C5_Witness ==
    /\ last.op = "to_sized"
    /\ last.target = "u8"
    /\ last.res = "StateIDOverflow"
    /\ dfa.sid = "u16"
    /\ dfa.kind = "Premultiplied"
    /\ dfa.state_count = 2

(***************************************************************************)
(* C6.  Retyping preserves the automaton: whenever to_sized<T> succeeds,   *)
(* the new DFA has the same kind, state_count, alphabet_len and            *)
(* byte_classes, its start, max_match and every transition are numerically *)
(* equal to the original's, and find(x) is the same for every input x; the *)
(* empty DFA, before and after premultiplication, included.                *)
(***************************************************************************)
C6_ToSizedPreservesAutomaton ==
    (last.op = "to_sized" /\ last.res = "ok")
    => /\ last.sized.kind = dfa.kind
       /\ last.sized.state_count = dfa.state_count
       /\ last.sized.alphabet_len = dfa.alphabet_len
       /\ last.sized.byte_classes = dfa.byte_classes
       /\ last.sized.start = dfa.start
       /\ last.sized.max_match = dfa.max_match
       /\ last.sized.trans = dfa.trans
       /\ \A x \in Inputs : find(last.sized, x) = find(dfa, x)

(***************************************************************************)
(* C7.  add_empty_state on an unpremultiplied DFA either succeeds,         *)
(* returning the previous state_count as the id, increasing state_count by *)
(* one and appending exactly alphabet_len dead entries; or fails with      *)
(* StateIDOverflow, exactly when the new id would exceed max_id of the     *)
(* state-id type, and then state_count and trans are unchanged.            *)
(***************************************************************************)
C7_AddEmptyStateOrOverflow ==
    [][ (Did("add_empty_state") /\ ~is_premultiplied(dfa.kind))
        => /\ (last'.res = "StateIDOverflow")
                <=> (dfa.state_count > max_id(dfa.sid))
           /\ last'.res = "StateIDOverflow" => dfa' = dfa
           /\ last'.res # "StateIDOverflow"
                => /\ last'.res = "ok"
                   /\ last'.ret = dfa.state_count
                   /\ dfa'.state_count = dfa.state_count + 1
                   /\ Len(dfa'.trans) = Len(dfa.trans) + dfa.alphabet_len
                   /\ SubSeq(dfa'.trans, 1, Len(dfa.trans)) = dfa.trans
                   /\ \A i \in (Len(dfa.trans) + 1) .. Len(dfa'.trans) :
                         dfa'.trans[i] = 0
                   /\ dfa' = [dfa EXCEPT !.trans = dfa'.trans,
                                         !.state_count = dfa'.state_count]
      ]_vars

\* add_empty_state has failed on a u8 DFA that holds all 256 states a u8
\* can name, over two classes.
C7_Witness ==
    /\ last.op = "add_empty_state"
    /\ last.res = "StateIDOverflow"
    /\ dfa.sid = "u8"
    /\ dfa.kind = "ByteClass"
    /\ dfa.state_count = 256
    /\ Len(dfa.trans) = 512

(***************************************************************************)
(* C8.  For every 256-entry class map in which each class k in             *)
(* [0, max(byte_classes)] is assigned to at least one byte (monotone in    *)
(* byte order or not), the DFA created by empty_with_byte_classes has      *)
(* alphabet_len = max(byte_classes) + 1, so every byte's class index lies  *)
(* in [0, alphabet_len); for an empty class map the DFA is Basic with      *)
(* alphabet_len = 256.                                                     *)
(***************************************************************************)
MaxClass(byte_classes) ==
    CHOOSE k \in 0 .. 255 :
        /\ \E i \in 1 .. 256 : byte_classes[i] = k
        /\ \A i \in 1 .. 256 : byte_classes[i] <= k

EveryClassAssigned(byte_classes) ==
    \A k \in 0 .. MaxClass(byte_classes) :
        \E i \in 1 .. 256 : byte_classes[i] = k

C8_AlphabetLenIsClassCount ==
    last.op = "empty_with_byte_classes"
    => IF dfa.byte_classes = <<>>
       THEN dfa.kind = "Basic" /\ dfa.alphabet_len = 256
       ELSE EveryClassAssigned(dfa.byte_classes)
            => /\ dfa.kind = "ByteClass"
               /\ dfa.alphabet_len = MaxClass(dfa.byte_classes) + 1
               /\ \A b \in 0 .. 255 : byte_to_class(dfa, b) < dfa.alphabet_len

(***************************************************************************)
(* C9.  trans.len() = state_count * alphabet_len in every state reachable  *)
(* from an empty DFA by add_empty_state, set_transition, set_start_state,  *)
(* set_max_match_state, swap_states, truncate_states(n) with               *)
(* n <= state_count, shuffle_match_states, premultiply and to_sized.       *)
(***************************************************************************)
C9_TableLength ==
    /\ Len(dfa.trans) = dfa.state_count * dfa.alphabet_len
    /\ (last.op = "to_sized" /\ last.res = "ok")
         => Len(last.sized.trans) = last.sized.state_count * last.sized.alphabet_len

\* truncate_states has dropped the last of two states of a DFA over two
\* classes.
C9_Witness ==
    /\ last.op = "truncate_states"
    /\ dfa.alphabet_len = 2
    /\ dfa.state_count = 1
    /\ Len(dfa.trans) = 2

(***************************************************************************)
(* C10.  Every stored identifier refers to a valid state: after any        *)
(* sequence of add_empty_state, set_transition and set_start_state with    *)
(* ids of existing states, shuffle_match_states and a successful           *)
(* premultiply, every entry of trans and the start id is less than         *)
(* state_count (unpremultiplied) or a multiple of alphabet_len less than   *)
(* state_count * alphabet_len (premultiplied).                             *)
(***************************************************************************)
ValidId(d, id) ==
    IF d.kind \in {"Premultiplied", "PremultipliedByteClass"}
    THEN id % d.alphabet_len = 0 /\ id < d.state_count * d.alphabet_len
    ELSE id < d.state_count

C10_StoredIdsValid ==
    /\ ValidId(dfa, dfa.start)
    /\ \A i \in 1 .. Len(dfa.trans) : ValidId(dfa, dfa.trans[i])

\* A shuffled DFA of three states over two classes has been premultiplied:
\* its start and a transition hold the premultiplied id 4 of state 2.
C10_Witness ==
    /\ last.op = "premultiply"
    /\ last.res = "ok"
    /\ dfa.kind = "PremultipliedByteClass"
    /\ dfa.state_count = 3
    /\ dfa.alphabet_len = 2
    /\ dfa.max_match = 2
    /\ dfa.start = 4
    /\ dfa.trans[3] = 4
    /\ dfa.trans[6] = 2

(***************************************************************************)
(* C11.  The dead state stays dead: in every DFA built by add_empty_state, *)
(* set_transition with from # dead, set_start_state, shuffle_match_states, *)
(* premultiply and to_sized, every transition of state 0 points to state   *)
(* 0 and is_match_state(0) is false whatever max_match is; and             *)
(* shuffle_match_states does not move state 0: row 0, the entries that     *)
(* point to state 0 and whether start is state 0 are as before.            *)
(***************************************************************************)
DeadRow(d) == \A c \in 1 .. d.alphabet_len : d.trans[c] = dead_id

DeadRefs(d) == { i \in 1 .. Len(d.trans) : d.trans[i] = dead_id }

DeadIsDead(d) == DeadRow(d) /\ ~is_match_state(d, dead_id)

C11_DeadStaysDead ==
    /\ [](/\ DeadIsDead(dfa)
          /\ (last.op = "to_sized" /\ last.res = "ok") => DeadIsDead(last.sized))
    /\ [][ (Did("shuffle_match_states") /\ last'.res = "ok")
           => /\ \A c \in 1 .. dfa.alphabet_len : dfa'.trans[c] = dfa.trans[c]
              /\ Cardinality(DeadRefs(dfa')) = Cardinality(DeadRefs(dfa))
              /\ (dfa'.start = dead_id) <=> (dfa.start = dead_id) ]_vars

\* A shuffle has moved the match state 2 to id 1; both other states have
\* transitions that leave them, state 0 has none.
C11_Witness ==
    /\ last.op = "shuffle_match_states"
    /\ last.res = "ok"
    /\ last.flags = <<FALSE, FALSE, TRUE>>
    /\ dfa.max_match = 1
    /\ DeadRow(dfa)
    /\ \A s \in 1 .. (dfa.state_count - 1) :
          \E c \in 0 .. (dfa.alphabet_len - 1) : Cell(dfa, s, c) # dead_id

(***************************************************************************)
(* C12.  For a DFA of id width 1, 2, 4 or 8 bytes and every byte order,    *)
(* to_bytes returns a buffer of exactly                                    *)
(* 320 + state_count * alphabet_len * width bytes: the 24-byte label at    *)
(* offset 0, the marker 0xFEFF at 24, version 1 at 26, the width at 28,    *)
(* the kind code at 30, start, state_count, max_match and alphabet_len as  *)
(* 8-byte integers at 32, 40, 48 and 56, the 256-byte class map at 64      *)
(* (the identity when the DFA has no byte classes) and the row-major       *)
(* transition table at 320.                                                *)
(***************************************************************************)
\* The integer that the width bytes of buf at offset `at` spell in the
\* given order.
RECURSIVE Spelled(_, _, _, _)
Spelled(buf, order, at, width) ==
    IF width = 0 THEN 0
    ELSE IF order = "LittleEndian"
    THEN buf[at + 1] + 256 * Spelled(buf, order, at + 1, width - 1)
    ELSE buf[at + width] + 256 * Spelled(buf, order, at, width - 1)

\* buf holds n as a width-byte integer of the given order at offset `at`.
FieldIs(buf, order, at, width, n) == Spelled(buf, order, at, width) = n

Width(d) ==
    IF d.sid = "u8" THEN 1 ELSE IF d.sid = "u16" THEN 2
    ELSE IF d.sid = "u32" THEN 4 ELSE 8

KindCode(d) ==
    IF d.kind = "Basic" THEN 0 ELSE IF d.kind = "Premultiplied" THEN 1
    ELSE IF d.kind = "ByteClass" THEN 2 ELSE 3

C12_ToBytesLayout ==
    last.op = "to_bytes"
    => LET buf == last.bytes
           order == IF last.order = "NativeEndian" THEN last.machine
                    ELSE last.order
           width == Width(dfa)
       IN  /\ last.res = "ok"
           /\ Len(buf) = 320 + dfa.state_count * dfa.alphabet_len * width
           /\ \A i \in 1 .. 24 : buf[i] = label[i]
           /\ FieldIs(buf, order, 24, 2, 65279)
           /\ FieldIs(buf, order, 26, 2, 1)
           /\ FieldIs(buf, order, 28, 2, width)
           /\ FieldIs(buf, order, 30, 2, KindCode(dfa))
           /\ FieldIs(buf, order, 32, 8, dfa.start)
           /\ FieldIs(buf, order, 40, 8, dfa.state_count)
           /\ FieldIs(buf, order, 48, 8, dfa.max_match)
           /\ FieldIs(buf, order, 56, 8, dfa.alphabet_len)
           /\ \A b \in 0 .. 255 :
                 buf[64 + b + 1] = IF dfa.byte_classes = <<>> THEN b
                                   ELSE dfa.byte_classes[b + 1]
           /\ \A s \in 0 .. (dfa.state_count - 1),
                 c \in 0 .. (dfa.alphabet_len - 1) :
                 FieldIs(buf, order,
                         320 + (s * dfa.alphabet_len + c) * width, width,
                         Cell(dfa, s, c))

\* A premultiplied u32 DFA without byte classes, whose second state has a
\* transition to itself (id 256), has been written in big-endian order.
C12_Witness ==
    /\ last.op = "to_bytes"
    /\ last.res = "ok"
    /\ last.order = "BigEndian"
    /\ dfa.sid = "u32"
    /\ dfa.kind = "Premultiplied"
    /\ dfa.state_count = 2
    /\ dfa.trans[257] = 256
    /\ Len(last.bytes) = 320 + 2 * 256 * 4

(***************************************************************************)
(* C13.  Serialization round-trips: a DFA written in the byte order E      *)
(* (little, big or native) and read back on a machine of that byte order   *)
(* has the same kind, start, state_count, max_match, alphabet_len and      *)
(* transition table as the DFA written, and is_match(x) is the same for    *)
(* every input x.                                                          *)
(***************************************************************************)
C13_RoundTrip ==
    [][ (/\ Did("from_bytes")
         /\ last.op = "to_bytes"
         /\ last'.machine = (IF last.order = "NativeEndian" THEN last.machine
                             ELSE last.order))
        => /\ last'.res = "ok"
           /\ dfa'.kind = dfa.kind
           /\ dfa'.start = dfa.start
           /\ dfa'.state_count = dfa.state_count
           /\ dfa'.max_match = dfa.max_match
           /\ dfa'.alphabet_len = dfa.alphabet_len
           /\ dfa'.trans = dfa.trans
           /\ \A x \in Inputs : is_match(dfa', x) = is_match(dfa, x) ]_vars

\* A premultiplied u16 DFA without byte classes, written in big-endian
\* order, has been read back on a big-endian machine; its start state 256
\* has a transition to itself and the empty input matches.
C13_Witness ==
    /\ last.op = "from_bytes"
    /\ last.res = "ok"
    /\ last.order = "BigEndian"
    /\ last.machine = "BigEndian"
    /\ dfa.sid = "u16"
    /\ dfa.kind = "Premultiplied"
    /\ Len(dfa.byte_classes) = 256
    /\ dfa.start = 256
    /\ dfa.trans[257] = 256
    /\ is_match(dfa, <<>>) = Yes

(***************************************************************************)
(* C14.  A newly created empty DFA, basic or byte-class, has exactly one   *)
(* state, the dead state, with start = dead, and matches no input: for     *)
(* every byte string x, the empty one included, is_match(x) is false and   *)
(* find(x), shortest_match(x) and rfind(x) are None.                       *)
(***************************************************************************)
C14_EmptyNeverMatches ==
    last.op = "empty_with_byte_classes"
    => /\ dfa.state_count = 1
       /\ dfa.start = dead_id
       /\ \A x \in Inputs :
             /\ is_match(dfa, x) = No
             /\ find(dfa, x) = NoMatch
             /\ shortest_match(dfa, x) = NoMatch
             /\ rfind(dfa, x) = NoMatch

(***************************************************************************)
(* C15.  In a byte-class DFA two bytes a and b of the same class are       *)
(* indistinguishable: replacing a by b in an input x does not change       *)
(* find(x), and set_transition(from, a, to) and set_transition(from, b,    *)
(* to) give the same transition table.                                     *)
(***************************************************************************)
\* Bytes of which two share a class in the class maps of two classes.
ClassBytes == {0, 1, 254, 255}

ClassInputs == UNION { [1 .. k -> ClassBytes] : k \in 0 .. MaxLen }

\* x with every a replaced by b.
Replaced(x, a, b) == [i \in 1 .. Len(x) |-> IF x[i] = a THEN b ELSE x[i]]

C15_SameClassIndistinguishable ==
    is_byte_class(dfa.kind)
    => \A a, b \in ClassBytes :
          dfa.byte_classes[a + 1] = dfa.byte_classes[b + 1]
          => /\ \A x \in ClassInputs :
                   find(dfa, Replaced(x, a, b)) = find(dfa, x)
             /\ \A from, to \in StateIds(dfa) :
                   set_transition(dfa, from, a, to).dfa.trans
                       = set_transition(dfa, from, b, to).dfa.trans

\* In a DFA over the two halves of the bytes, set_transition has wired the
\* match state 1 to itself on the lower half only: the inputs 0 and 1
\* match alike, 254 and 255 fail alike.
C15_Witness ==
    /\ last.op = "set_transition"
    /\ dfa.kind = "ByteClass"
    /\ dfa.byte_classes = HalvesClasses
    /\ dfa.start = 1
    /\ find(dfa, <<0, 1>>) = Match(2)
    /\ find(dfa, <<1, 0>>) = Match(2)
    /\ find(dfa, <<254>>) = NoMatch
    /\ find(dfa, <<255>>) = NoMatch

(***************************************************************************)
(* C16.  shortest_match stops where is_match stops and returns a position  *)
(* iff a match was found: shortest_match(x) is Some(p) iff is_match(x) is  *)
(* true, and then p, 0 <= p <= len(x), is the number of bytes consumed     *)
(* when the scan stopped: is_match(x[..p]) is true, and is_match(x[..q])   *)
(* is false for every q with 0 < q < p.                                    *)
(***************************************************************************)
C16_ShortestMatchIffIsMatch ==
    \A x \in Inputs :
        LET sm == shortest_match(dfa, x)
        IN  /\ (sm.tag = "Some") <=> (is_match(dfa, x) = Yes)
            /\ (sm.tag = "None") <=> (is_match(dfa, x) = No)
            /\ sm.tag = "Some"
                  => /\ sm.at \in 0 .. Len(x)
                     /\ is_match(dfa, SubSeq(x, 1, sm.at)) = Yes
                     /\ \A q \in 1 .. (sm.at - 1) :
                           is_match(dfa, SubSeq(x, 1, q)) = No

\* Over the two halves of the bytes, the start state 2 is no match state
\* and goes to the match state 1 on the upper half and to itself on the
\* lower: the scan of 0, 255 stops after two bytes, and the empty input
\* does not match.
C16_Witness ==
    /\ dfa.byte_classes = HalvesClasses
    /\ dfa.start = 2
    /\ dfa.max_match = 1
    /\ shortest_match(dfa, <<0, 255>>) = Match(2)
    /\ shortest_match(dfa, <<255>>) = Match(1)
    /\ shortest_match(dfa, <<>>) = NoMatch
    /\ is_match(dfa, <<0, 255>>) = Yes

(***************************************************************************)
(* C17.  Premultiplication is terminal: once the kind is Premultiplied or  *)
(* PremultipliedByteClass no later operation makes it unpremultiplied      *)
(* again, and shuffle_match_states and minimize called on such a DFA abort *)
(* on their assertion, leaving kind, start, max_match, state_count and     *)
(* every transition as they were.                                          *)
(***************************************************************************)
C17_PremultiplyIsTerminal ==
    [][ is_premultiplied(dfa.kind)
        => /\ is_premultiplied(dfa'.kind)
           /\ (Did("shuffle_match_states") \/ Did("minimize"))
                 => /\ last'.res = "panic"
                    /\ dfa' = dfa ]_vars

\* minimize has been called on a premultiplied DFA of three states whose
\* start is not the dead state, and has aborted.
C17_Witness ==
    /\ last.op = "minimize"
    /\ last.res = "panic"
    /\ is_premultiplied(dfa.kind)
    /\ dfa.state_count = 3
    /\ dfa.start # dead_id

(***************************************************************************)
(* C18.  Whenever premultiply succeeds on an unpremultiplied DFA, the new  *)
(* start, the new max_match and every new transition are the old value     *)
(* times alphabet_len exactly, each product fitting the state id type; the *)
(* kind becomes the premultiplied counterpart; state_count, alphabet_len   *)
(* and byte_classes are unchanged.  The empty DFA and DFAs without a match *)
(* state are included.                                                     *)
(***************************************************************************)
C18_PremultiplyExactProducts ==
    [][ (Did("premultiply") /\ last'.res = "ok" /\ ~is_premultiplied(dfa.kind))
        => /\ dfa'.start = dfa.start * dfa.alphabet_len
           /\ dfa'.max_match = dfa.max_match * dfa.alphabet_len
           /\ Len(dfa'.trans) = Len(dfa.trans)
           /\ \A i \in 1 .. Len(dfa.trans) :
                 dfa'.trans[i] = dfa.trans[i] * dfa.alphabet_len
           /\ dfa.start * dfa.alphabet_len <= max_id(dfa.sid)
           /\ dfa.max_match * dfa.alphabet_len <= max_id(dfa.sid)
           /\ dfa'.kind = (IF dfa.kind = "Basic" THEN "Premultiplied"
                           ELSE "PremultipliedByteClass")
           /\ dfa'.state_count = dfa.state_count
           /\ dfa'.alphabet_len = dfa.alphabet_len
           /\ dfa'.byte_classes = dfa.byte_classes ]_vars

(***************************************************************************)
(* C19.  set_transition(from, input_byte, to), from an existing state,     *)
(* writes `to` into the one cell at row from, column                       *)
(* byte_to_class(input_byte), and leaves every other cell of every row,    *)
(* start, max_match, state_count and kind unchanged, for every byte 0..255 *)
(* and every class map empty_with_byte_classes accepts.                    *)
(***************************************************************************)
\* The row of the state with identifier id.
RowOf(d, id) ==
    IF is_premultiplied(d.kind)
    THEN id \div d.alphabet_len
    ELSE id

C19_SetTransitionWritesOneCell ==
    \A from \in StateIds(dfa), to \in StateIds(dfa), input \in 0 .. 255 :
        LET r == set_transition(dfa, from, input, to)
            col == byte_to_class(dfa, input)
        IN  /\ r.res = "ok"
            /\ Len(r.dfa.trans) = Len(dfa.trans)
            /\ \A s \in 0 .. (dfa.state_count - 1),
                  c \in 0 .. (dfa.alphabet_len - 1) :
                  Cell(r.dfa, s, c) = IF s = RowOf(dfa, from) /\ c = col
                                      THEN to
                                      ELSE Cell(dfa, s, c)
            /\ col < dfa.alphabet_len
            /\ r.dfa.start = dfa.start
            /\ r.dfa.max_match = dfa.max_match
            /\ r.dfa.state_count = dfa.state_count
            /\ r.dfa.kind = dfa.kind

\* Three states over the class map that puts byte 0 alone in class 1:
\* set_transition(1, 0, 2) writes the cell of state 2.
C19_OtherRowWritten ==
    ~(/\ dfa.state_count = 3
      /\ dfa.alphabet_len = 1
      /\ dfa.kind = "ByteClass"
      /\ dfa.trans = <<0, 0, 0>>
      /\ set_transition(dfa, 1, 0, 2).dfa.trans = <<0, 0, 2>>)

(***************************************************************************)
(* C20.  sparse_transitions of a state row returns triples (lo, hi, next)  *)
(* that, in order, partition the columns 0 .. alphabet_len-1 into          *)
(* consecutive non-empty ranges: the first lo is 0, each following lo is   *)
(* the previous hi + 1, the last hi is alphabet_len - 1, every column of   *)
(* [lo, hi] has next-state next, and adjacent triples never carry the same *)
(* next-state.  Rows are 1, 2 and 256 columns wide here.                   *)
(***************************************************************************)
IsMaximalPartition(ranges, transitions) ==
    /\ Len(ranges) >= 1
    /\ ranges[1][1] = 0
    /\ ranges[Len(ranges)][2] = Len(transitions) - 1
    /\ \A k \in 1 .. Len(ranges) :
          /\ ranges[k][1] <= ranges[k][2]
          /\ \A c \in ranges[k][1] .. ranges[k][2] :
                transitions[c + 1] = ranges[k][3]
    /\ \A k \in 1 .. (Len(ranges) - 1) :
          /\ ranges[k + 1][1] = ranges[k][2] + 1
          /\ ranges[k + 1][3] # ranges[k][3]

C20_SparseTransitionsPartition ==
    \A s \in 0 .. (dfa.state_count - 1) :
        LET r == sparse_transitions(Chunk(dfa, s))
        IN  /\ r.res = "ok"
            /\ Len(Chunk(dfa, s)) = dfa.alphabet_len
            /\ IsMaximalPartition(r.ranges, Chunk(dfa, s))

\* A 256-column row that splits into three ranges, the last one byte wide.
C20_Witness ==
    /\ last.op = "set_transition"
    /\ dfa.alphabet_len = 256
    /\ \E s \in 1 .. (dfa.state_count - 1), a, b \in StateIds(dfa) \ {0} :
          sparse_transitions(Chunk(dfa, s)).ranges
              = << <<0, 0, a>>, <<1, 254, 0>>, <<255, 255, b>> >>

(***************************************************************************)
(* C21.  In every DFA reachable from an empty DFA by add_empty_state,      *)
(* set_transition, set_start_state, shuffle_match_states and premultiply,  *)
(* the empty DFA included, max_match identifies an existing state or the   *)
(* dead state: state_id_to_offset(max_match) < state_count * alphabet_len. *)
(***************************************************************************)
C21_MaxMatchExists ==
    state_id_to_offset(dfa, dfa.max_match) < dfa.state_count * dfa.alphabet_len

\* The same with the id of a non-existent state classified as a match state.
C21_NoGhostMatchState ==
    \A id \in 0 .. LargestId(dfa) + (IF is_premultiplied(dfa.kind)
                                     THEN dfa.alphabet_len ELSE 1) :
        is_match_state(dfa, id) => id \in StateIds(dfa)

(***************************************************************************)
(* C22.  premultiply is idempotent: on a DFA that is already premultiplied *)
(* it returns Ok and leaves kind, start, max_match, state_count and every  *)
(* transition unchanged, so premultiply(premultiply(dfa)) equals           *)
(* premultiply(dfa) field by field.                                        *)
(***************************************************************************)
C22_PremultiplyIdempotent ==
    /\ [](LET once == premultiply(dfa)
              twice == premultiply(once.dfa)
          IN  /\ twice.dfa = once.dfa
              /\ once.res = "ok" => twice.res = "ok")
    /\ [][ (Did("premultiply") /\ is_premultiplied(dfa.kind))
           => /\ last'.res = "ok"
              /\ dfa' = dfa ]_vars

\* A premultiplied DFA with a start state and a transition that a second
\* multiplication would move.
C22_Witness ==
    /\ last.op = "premultiply"
    /\ last.res = "ok"
    /\ is_premultiplied(dfa.kind)
    /\ dfa.alphabet_len = 2
    /\ dfa.state_count = 3
    /\ dfa.start = 2
    /\ \E i \in 1 .. Len(dfa.trans) : dfa.trans[i] = 4
    /\ premultiply(dfa).dfa = dfa

====
